---- MODULE Spec2Model ----
(***************************************************************************)
(* Model of backend/server.py: the Telegram intake dialogue for renting    *)
(* Meta Quest masks (handle_callback, handle_text), the availability scan  *)
(* (get_available_dates) and the booking API (update_booking_status,       *)
(* delete_booking, get_bookings, get_active_bookings).                     *)
(*                                                                         *)
(* Dates are day numbers (midnight UTC of that day); the clock counts      *)
(* ticks, TicksPerDay of them to a day, so that "now" can lie strictly     *)
(* inside a day.  Handlers are coroutines: the code between two awaits is  *)
(* one atomic step, and steps of different handler executions interleave.  *)
(***************************************************************************)
EXTENDS Integers, Sequences, FiniteSets, Bags, TLC

\* ------------------------------------------------------------------ bounds
MaxUsers == 2
TicksPerDay == 2

\* ------------------------------------------------------- program constants
TotalMasks == 2
HorizonDays == 30
MaxDates == 7

Users == 1..MaxUsers

\* PRICES[masks_count][days_count]
PRICES ==
  (1 :> (1 :> 70 @@ 2 :> 130 @@ 3 :> 180)) @@
  (2 :> (1 :> 140 @@ 2 :> 260 @@ 3 :> 360))

\* Booking.status values the code itself names
Statuses == {"pending", "confirmed", "completed", "cancelled"}

\* ---------------------------------------------------------------- inputs
\* callback data masks_N, days_N: the buttons offered and one value outside
MasksInputs == {1, 2, 3}
DaysInputs == {1, 2, 3, 4}
\* the status query parameter of PUT /bookings/{id}/status is any string
StatusInputs == Statuses \cup {"archived"}

VARIABLES
  bookings,       \* db.bookings: the set of stored booking documents
  user_sessions,  \* the module-level dict user_id -> session dict
  tasks,          \* bag of the handler executions suspended at an await
  lastOut,        \* the last reply or response produced
  clock,          \* datetime.now(timezone.utc), in ticks
  nextId          \* number of booking ids issued so far

vars == <<bookings, user_sessions, tasks, lastOut, clock, nextId>>

\* today taken as the midnight nearest to now
TodayNearest(now) == (now + (TicksPerDay \div 2)) \div TicksPerDay

\* today = now.replace(hour=0, minute=0, second=0, microsecond=0)
Today(now) == now \div TicksPerDay
\* a date (midnight of day d) as an instant of the clock
Instant(d) == d * TicksPerDay

\* ------------------------------------------------------------- dict helpers
EmptyDict == [k \in {} |-> 0]
\* d[k] = v on a Python dict
DictSet(d, k, v) == [x \in (DOMAIN d) \cup {k} |-> IF x = k THEN v ELSE d[x]]
\* del d[k]
DictDel(d, k) == [x \in (DOMAIN d) \ {k} |-> d[x]]
\* d.get(k, 1): a missing key reads as 1
SessionGetDefault(d, k) == IF k \in DOMAIN d THEN <<d[k]>> ELSE <<1>>

\* d[k] read from a session dict: <<value>>, or <<>> for a KeyError
SessionGet(d, k) == IF k \in DOMAIN d THEN <<d[k]>> ELSE <<>>
\* PRICES.get(masks_count, {}).get(days_count, 0): no price reads as 0
PriceOrZero(masks_count, days_count) ==
  IF masks_count \in DOMAIN PRICES
     /\ days_count \in DOMAIN PRICES[masks_count]
  THEN <<PRICES[masks_count][days_count]>> ELSE <<0>>

\* PRICES[masks_count][days_count]: <<price>>, or <<>> for a KeyError
Price(masks_count, days_count) ==
  IF masks_count \in DOMAIN PRICES
     /\ days_count \in DOMAIN PRICES[masks_count]
  THEN <<PRICES[masks_count][days_count]>> ELSE <<>>

\* ---------------------------------------------------------- availability
RECURSIVE SumMasks(_)
\* {"$group": {"_id": None, "total_masks": {"$sum": "$masks_count"}}}
SumMasks(S) ==
  IF S = {} THEN 0
  ELSE LET b == CHOOSE x \in S : TRUE IN b.masks_count + SumMasks(S \ {b})

\* the $match stage without its third clause: a booking that covers the whole
\* window is not counted
MatchesWindowNoCover(b, check_date, end_date) ==
  /\ b.status \in {"pending", "confirmed"}
  /\ \/ (b.start_date < end_date /\ b.start_date >= check_date)
     \/ (b.end_date > check_date /\ b.end_date <= end_date)

\* the $match stage with "$gte" for the "$gt" of its second clause: a
\* booking that ends on the first day of the window is counted
MatchesWindowClosed(b, check_date, end_date) ==
  /\ b.status \in {"pending", "confirmed"}
  /\ \/ (b.start_date < end_date /\ b.start_date >= check_date)
     \/ (b.end_date >= check_date /\ b.end_date <= end_date)
     \/ (b.start_date <= check_date /\ b.end_date >= end_date)

\* the $match stage without its second clause: a booking that began before
\* the window and ends inside it is not counted
MatchesWindowNoTail(b, check_date, end_date) ==
  /\ b.status \in {"pending", "confirmed"}
  /\ \/ (b.start_date < end_date /\ b.start_date >= check_date)
     \/ (b.start_date <= check_date /\ b.end_date >= end_date)

\* the $match stage without its first clause: a booking that starts inside
\* the window and ends after it is not counted
MatchesWindowNoHead(b, check_date, end_date) ==
  /\ b.status \in {"pending", "confirmed"}
  /\ \/ (b.end_date > check_date /\ b.end_date <= end_date)
     \/ (b.start_date <= check_date /\ b.end_date >= end_date)

\* the $match stage with the status filter {"$ne": "cancelled"}: a completed
\* booking is counted
MatchesWindowNotCancelled(b, check_date, end_date) ==
  /\ b.status # "cancelled"
  /\ \/ (b.start_date < end_date /\ b.start_date >= check_date)
     \/ (b.end_date > check_date /\ b.end_date <= end_date)
     \/ (b.start_date <= check_date /\ b.end_date >= end_date)

\* the $match stage of the pipeline: status filter and the three-clause $or
MatchesWindow(b, check_date, end_date) ==
  /\ b.status \in {"pending", "confirmed"}
  /\ \/ (b.start_date < end_date /\ b.start_date >= check_date)
     \/ (b.end_date > check_date /\ b.end_date <= end_date)
     \/ (b.start_date <= check_date /\ b.end_date >= end_date)

\* booked_masks for one candidate date
BookedMasks(db, check_date, end_date) ==
  SumMasks({b \in db : MatchesWindow(b, check_date, end_date)})

\* if booked_masks + masks_needed <= 2
DateFits(db, masks_needed, check_date, end_date) ==
  BookedMasks(db, check_date, end_date) + masks_needed <= TotalMasks

RECURSIVE ScanDates(_, _, _, _, _, _)
\* the loop "for i in range(1, 31)" from index i on, available_dates = acc
ScanDates(db, masks_needed, days_needed, today, i, acc) ==
  IF i > HorizonDays THEN acc
  ELSE LET check_date == today + i
           end_date == check_date + days_needed
           acc2 == IF DateFits(db, masks_needed, check_date, end_date)
                   THEN Append(acc, check_date) ELSE acc
       IN IF Len(acc2) >= MaxDates THEN acc2
          ELSE ScanDates(db, masks_needed, days_needed, today, i + 1, acc2)

\* a scan whose loop is "for i in range(31)": it starts with today itself
get_available_dates_from_today(db, masks_needed, days_needed, now) ==
  ScanDates(db, masks_needed, days_needed, Today(now), 0, <<>>)

\* get_available_dates(masks_needed, days_needed) against the collection db,
\* called at instant now.  The scan's reads are taken on one snapshot of db.
get_available_dates(db, masks_needed, days_needed, now) ==
  ScanDates(db, masks_needed, days_needed, Today(now), 1, <<>>)

\* elements of a sequence
Range(s) == {s[i] : i \in DOMAIN s}

\* ------------------------------------------------------------------ state
NoBooking ==
  [id |-> 0, user_id |-> 0, masks_count |-> 0, days_count |-> 0,
   start_date |-> 0, end_date |-> 0, price |-> 0, delivery_address |-> "",
   status |-> "", created_at |-> 0]

\* a handler execution suspended at an await: booking is the Booking object
\* a handle_text execution has built, masks_count and days_count are the
\* locals of a days_ callback
Task(pc, u, masks_count, days_count, booking) ==
  [pc |-> pc, user |-> u, masks_count |-> masks_count,
   days_count |-> days_count, booking |-> booking]

Suspend(t) == tasks (+) SetToBag({t})
Resume(t) == tasks (-) SetToBag({t})
Move(t, pc) == Resume(t) (+) SetToBag({[t EXCEPT !.pc = pc]})
Suspended(pc) == {t \in BagToSet(tasks) : t.pc = pc}

\* a reply sent to a Telegram user (who = user id) or an HTTP response
\* (who = 0) and the instant it was produced at; body is the date keyboard
\* of an offer or the list of a GET
Out(who, event, reply) ==
  [who |-> who, event |-> event, reply |-> reply, body |-> <<>>, at |-> clock]

Init ==
  /\ bookings = {}
  /\ user_sessions = EmptyDict
  /\ tasks = EmptyBag
  /\ clock = 0
  /\ lastOut = Out(0, "startup", "none")
  /\ nextId = 0

\* datetime.now(timezone.utc) moves on between two steps, up to instant max
Tick(max) ==
  /\ clock < max
  /\ clock' = clock + 1
  /\ UNCHANGED <<bookings, user_sessions, tasks, lastOut, nextId>>

\* --------------------------------------------------------- handle_callback
\* data == "start_booking": only the quantity keyboard is sent
StartBooking(u) ==
  /\ lastOut' = Out(u, "start_booking", "ask_masks")
  /\ UNCHANGED <<bookings, user_sessions, tasks, clock, nextId>>

\* data.startswith("masks_"): the session is replaced before PRICES is read
SelectMasks(u, n) ==
  /\ user_sessions' = DictSet(user_sessions, u, ("masks_count" :> n))
  /\ lastOut' = IF n \in DOMAIN PRICES
                THEN Out(u, "masks", "ask_days")
                ELSE Out(u, "masks", "KeyError")
  /\ UNCHANGED <<bookings, tasks, clock, nextId>>

\* data.startswith("days_"), up to "await get_available_dates(...)"; at most
\* slots handler executions are suspended at a time
SelectDaysBegin(u, n, slots) ==
  /\ IF u \notin DOMAIN user_sessions
     THEN /\ lastOut' = Out(u, "days", "session_expired")
          /\ UNCHANGED <<user_sessions, tasks>>
     ELSE /\ BagCardinality(tasks) < slots
          /\ user_sessions' =
               [user_sessions EXCEPT ![u] = DictSet(@, "days_count", n)]
          /\ tasks' = Suspend(Task("scan", u, user_sessions[u]["masks_count"],
                                   n, NoBooking))
          /\ UNCHANGED lastOut
  /\ UNCHANGED <<bookings, clock, nextId>>

\* data.startswith("days_"), from the result of get_available_dates on
SelectDaysScan(t) ==
  /\ t \in Suspended("scan")
  /\ LET available_dates ==
           get_available_dates(bookings, t.masks_count, t.days_count, clock)
     IN lastOut' =
          IF available_dates = <<>>
          THEN Out(t.user, "days", "no_dates")
          ELSE IF Price(t.masks_count, t.days_count) = <<>>
          THEN Out(t.user, "days", "KeyError")
          ELSE [Out(t.user, "days", "offer_dates")
                  EXCEPT !.body = available_dates]
  /\ tasks' = Resume(t)
  /\ UNCHANGED <<bookings, user_sessions, clock, nextId>>

\* a date_ branch that stores the date before it looks for the session
SelectDateStoresFirst(u, d) ==
  /\ user_sessions' =
       DictSet(user_sessions, u,
               DictSet(IF u \in DOMAIN user_sessions
                       THEN user_sessions[u] ELSE EmptyDict, "start_date", d))
  /\ lastOut' = IF u \notin DOMAIN user_sessions
                THEN Out(u, "date", "session_expired")
                ELSE IF SessionGet(user_sessions[u], "days_count") = <<>>
                THEN Out(u, "date", "KeyError")
                ELSE Out(u, "date", "ask_address")
  /\ UNCHANGED <<bookings, tasks, clock, nextId>>

\* data.startswith("date_"): start_date is stored before days_count is read
SelectDate(u, d) ==
  /\ IF u \notin DOMAIN user_sessions
     THEN /\ lastOut' = Out(u, "date", "session_expired")
          /\ UNCHANGED user_sessions
     ELSE /\ user_sessions' =
               [user_sessions EXCEPT ![u] = DictSet(@, "start_date", d)]
          /\ lastOut' = IF SessionGet(user_sessions[u], "days_count") = <<>>
                        THEN Out(u, "date", "KeyError")
                        ELSE Out(u, "date", "ask_address")
  /\ UNCHANGED <<bookings, tasks, clock, nextId>>

\* -------------------------------------------------------------- handle_text
\* a Booking whose end_date is the start date itself
NewBookingNoDuration(id, u, masks_count, days_count, start_date, price, address, now) ==
  [id |-> id, user_id |-> u, masks_count |-> masks_count,
   days_count |-> days_count, start_date |-> start_date,
   end_date |-> start_date, price |-> price,
   delivery_address |-> address, status |-> "pending", created_at |-> now]

\* Booking(user_id=..., ...): status and created_at take their defaults
NewBooking(id, u, masks_count, days_count, start_date, price, address, now) ==
  [id |-> id, user_id |-> u, masks_count |-> masks_count,
   days_count |-> days_count, start_date |-> start_date,
   end_date |-> start_date + days_count, price |-> price,
   delivery_address |-> address, status |-> "pending", created_at |-> now]

\* the guard of handle_text
SessionReady(u) ==
  /\ u \in DOMAIN user_sessions
  /\ "start_date" \in DOMAIN user_sessions[u]

\* handle_text up to "await db.bookings.insert_one(...)": the guard, the
\* session reads, the price lookup and the construction of the Booking; at
\* most cap bookings are ever built
HandleTextBegin(u, address, slots, cap) ==
  /\ IF ~SessionReady(u)
     THEN /\ lastOut' = Out(u, "text", "none")
          /\ UNCHANGED <<tasks, nextId>>
     ELSE LET session == user_sessions[u]
              start_date == SessionGet(session, "start_date")
              days_count == SessionGet(session, "days_count")
              masks_count == SessionGet(session, "masks_count")
              price == IF days_count = <<>> \/ masks_count = <<>> THEN <<>>
                       ELSE Price(masks_count[1], days_count[1])
          IN IF start_date = <<>> \/ price = <<>>
             THEN /\ lastOut' = Out(u, "text", "KeyError")
                  /\ UNCHANGED <<tasks, nextId>>
             ELSE /\ BagCardinality(tasks) < slots
                  /\ nextId < cap
                  /\ nextId' = nextId + 1
                  /\ tasks' = Suspend(Task("insert", u, 0, 0,
                       NewBooking(nextId + 1, u, masks_count[1], days_count[1],
                                  start_date[1], price[1], address, clock)))
                  /\ UNCHANGED lastOut
  /\ UNCHANGED <<bookings, user_sessions, clock>>

\* await db.bookings.insert_one(booking.dict())
TextInsert(t) ==
  /\ t \in Suspended("insert")
  /\ bookings' = bookings \cup {t.booking}
  /\ tasks' = Move(t, "reply")
  /\ UNCHANGED <<user_sessions, lastOut, clock, nextId>>

\* await update.message.reply_text(confirmation_message); a failed send
\* raises out of handle_text
TextReply(t, delivered) ==
  /\ t \in Suspended("reply")
  /\ IF delivered
     THEN /\ lastOut' = Out(t.user, "text", "confirmation")
          /\ tasks' = Move(t, "notify")
     ELSE /\ lastOut' = Out(t.user, "text", "send_failed")
          /\ tasks' = Resume(t)
  /\ UNCHANGED <<bookings, user_sessions, clock, nextId>>

\* a handle_text that ends with user_sessions.clear()
TextNotifyClearsAll(t, delivered) ==
  /\ t \in Suspended("notify")
  /\ lastOut' = IF delivered
                THEN Out(t.user, "text", "admin_notified")
                ELSE Out(t.user, "text", "admin_notify_failed")
  /\ user_sessions' = EmptyDict
  /\ tasks' = Resume(t)
  /\ UNCHANGED <<bookings, clock, nextId>>

\* a notification whose failure raises out of handle_text
TextNotifyRaises(t, delivered) ==
  /\ t \in Suspended("notify")
  /\ IF delivered
     THEN /\ lastOut' = Out(t.user, "text", "admin_notified")
          /\ user_sessions' = DictDel(user_sessions, t.user)
     ELSE /\ lastOut' = Out(t.user, "text", "admin_notify_failed")
          /\ UNCHANGED user_sessions
  /\ tasks' = Resume(t)
  /\ UNCHANGED <<bookings, clock, nextId>>

\* await send_admin_notification(booking), which catches its own failure,
\* then "if user_id in user_sessions: del user_sessions[user_id]"
TextNotify(t, delivered) ==
  /\ t \in Suspended("notify")
  /\ lastOut' = IF delivered
                THEN Out(t.user, "text", "admin_notified")
                ELSE Out(t.user, "text", "admin_notify_failed")
  /\ user_sessions' = DictDel(user_sessions, t.user)
  /\ tasks' = Resume(t)
  /\ UNCHANGED <<bookings, clock, nextId>>

\* ------------------------------------------------------------ FastAPI routes
ListLimit == 100

RECURSIVE Perms(_)
\* every order of the documents of S
Perms(S) ==
  IF S = {} THEN {<<>>}
  ELSE UNION {{<<b>> \o l : l \in Perms(S \ {b})} : b \in S}

RECURSIVE SortedLists(_, _)
\* cursor.sort on the integer key of each document: every list of the
\* documents of S in ascending key order (documents with equal keys come in
\* any order), built around a document with a median key
SortedLists(S, key) ==
  IF S = {} THEN {<<>>}
  ELSE LET half == Cardinality(S) \div 2
           mid == CHOOSE x \in S :
                    /\ Cardinality({y \in S : key[y] < key[x]}) <= half
                    /\ Cardinality({y \in S : key[y] > key[x]}) <= half
       IN {lo \o eq \o hi :
             lo \in SortedLists({y \in S : key[y] < key[mid]}, key),
             eq \in Perms({y \in S : key[y] = key[mid]}),
             hi \in SortedLists({y \in S : key[y] > key[mid]}, key)}

\* cursor.to_list(n)
ToList(s, n) == IF Len(s) <= n THEN s ELSE SubSeq(s, 1, n)

\* db.bookings.find().sort("created_at", -1).to_list(100): the lists the
\* query can return
get_bookings(db) ==
  {ToList(s, ListLimit) :
     s \in SortedLists(db, [b \in db |-> 0 - b.created_at])}

\* the filter of get_active_bookings at instant now
IsActive(b, now) ==
  /\ b.status \in {"pending", "confirmed"}
  /\ Instant(b.end_date) >= now

\* db.bookings.find({...}).sort("start_date", 1).to_list(100)
get_active_bookings(db, now) ==
  {ToList(s, ListLimit) :
     s \in SortedLists({b \in db : IsActive(b, now)},
                       [b \in db |-> b.start_date])}

\* GET /api/bookings
GetBookings ==
  /\ \E s \in get_bookings(bookings) :
       lastOut' = [Out(0, "get_bookings", "200") EXCEPT !.body = s]
  /\ UNCHANGED <<bookings, user_sessions, tasks, clock, nextId>>

\* GET /api/bookings/active
GetActiveBookings ==
  /\ \E s \in get_active_bookings(bookings, clock) :
       lastOut' = [Out(0, "get_active_bookings", "200") EXCEPT !.body = s]
  /\ UNCHANGED <<bookings, user_sessions, tasks, clock, nextId>>

\* an update_one with upsert=True: an id that matches nothing is stored
UpdateBookingStatusUpsert(booking_id, status) ==
  /\ IF \E b \in bookings : b.id = booking_id
     THEN /\ bookings' = {IF b.id = booking_id
                          THEN [b EXCEPT !.status = status] ELSE b :
                          b \in bookings}
          /\ lastOut' = Out(0, "update_booking_status", "updated")
     ELSE /\ lastOut' = Out(0, "update_booking_status", "404")
          /\ bookings' = bookings \cup
               {[NoBooking EXCEPT !.id = booking_id, !.status = status]}
  /\ UNCHANGED <<user_sessions, tasks, clock, nextId>>

\* an update that refuses to leave the final statuses completed and cancelled
UpdateBookingStatusLegal(booking_id, status) ==
  /\ IF \E b \in bookings : b.id = booking_id
     THEN IF \E b \in bookings :
               b.id = booking_id /\ b.status \in {"completed", "cancelled"}
          THEN /\ lastOut' = Out(0, "update_booking_status", "409")
               /\ UNCHANGED bookings
          ELSE /\ bookings' = {IF b.id = booking_id
                               THEN [b EXCEPT !.status = status] ELSE b :
                               b \in bookings}
               /\ lastOut' = Out(0, "update_booking_status", "updated")
     ELSE /\ lastOut' = Out(0, "update_booking_status", "404")
          /\ UNCHANGED bookings
  /\ UNCHANGED <<user_sessions, tasks, clock, nextId>>

\* an update_many without the id in its filter once the id is known to exist
UpdateBookingStatusAll(booking_id, status) ==
  /\ IF \E b \in bookings : b.id = booking_id
     THEN /\ bookings' = {[b EXCEPT !.status = status] : b \in bookings}
          /\ lastOut' = Out(0, "update_booking_status", "updated")
     ELSE /\ lastOut' = Out(0, "update_booking_status", "404")
          /\ UNCHANGED bookings
  /\ UNCHANGED <<user_sessions, tasks, clock, nextId>>

\* PUT /api/bookings/{booking_id}/status: update_one, then matched_count
UpdateBookingStatus(booking_id, status) ==
  /\ IF \E b \in bookings : b.id = booking_id
     THEN /\ bookings' = {IF b.id = booking_id
                          THEN [b EXCEPT !.status = status] ELSE b :
                          b \in bookings}
          /\ lastOut' = Out(0, "update_booking_status", "updated")
     ELSE /\ lastOut' = Out(0, "update_booking_status", "404")
          /\ UNCHANGED bookings
  /\ UNCHANGED <<user_sessions, tasks, clock, nextId>>

\* DELETE /api/bookings/{booking_id}: delete_one, then deleted_count
DeleteBooking(booking_id) ==
  /\ IF \E b \in bookings : b.id = booking_id
     THEN /\ bookings' = {b \in bookings : b.id # booking_id}
          /\ lastOut' = Out(0, "delete_booking", "deleted")
     ELSE /\ lastOut' = Out(0, "delete_booking", "404")
          /\ UNCHANGED bookings
  /\ UNCHANGED <<user_sessions, tasks, clock, nextId>>

\* --------------------------------------------------------------- behaviours
AllTasks == BagToSet(tasks)

\* the dates today + o for the offsets o of DO
DatesAt(DO) == {Today(clock) + o : o \in DO}

\* the intake dialogue of the users US with callback values drawn from MI
\* (masks_N), DI (days_N), date_D for the day offsets DO, and address
\* texts from AD
Intake(US, MI, DI, DO, AD, slots, cap) ==
  \/ \E u \in US : StartBooking(u)
  \/ \E u \in US, n \in MI : SelectMasks(u, n)
  \/ \E u \in US, n \in DI : SelectDaysBegin(u, n, slots)
  \/ \E t \in AllTasks : SelectDaysScan(t)
  \/ \E u \in US, d \in DatesAt(DO) : SelectDate(u, d)
  \/ \E u \in US, a \in AD : HandleTextBegin(u, a, slots, cap)
  \/ \E t \in AllTasks : TextInsert(t)
  \/ \E t \in AllTasks, ok \in BOOLEAN : TextReply(t, ok)
  \/ \E t \in AllTasks, ok \in BOOLEAN : TextNotify(t, ok)

\* Concurrent intake: two users, two handler executions in flight, the
\* one-day rental of tomorrow with either quantity
IntakeSlots == 2
IntakeCap == 2
NextIntake ==
  Intake(Users, {1, 2}, {1}, {1}, {"addr1"}, IntakeSlots, IntakeCap)

SpecIntake == Init /\ [][NextIntake]_vars

\* One user's dialogue with every callback value, supported or not, and
\* dates before today, offered, and past the horizon
DialogueSlots == 1
DialogueCap == 1
MaxAhead == 2
DateOffsets == ((-1)..MaxAhead) \cup {HorizonDays + 1}
NextDialogue ==
  Intake({1}, MasksInputs, DaysInputs, DateOffsets, {"addr1"},
         DialogueSlots, DialogueCap)

SpecDialogue == Init /\ [][NextDialogue]_vars

\* The availability scan on its own: a days_ callback suspended at
\* "await get_available_dates(...)" for a supported quantity and duration,
\* over every stored collection of up to AvailBookings bookings that start
\* within the next AvailMaxStart days
AvailBookings == 2
AvailMaxStart == 3
AvailStatuses == <<"pending", "confirmed", "cancelled">>
AvailPool ==
  {[NewBooking(0, 1, m, k, d, PRICES[m][k], "addr1", 0)
      EXCEPT !.status = AvailStatuses[st], !.created_at = st] :
     m \in DOMAIN PRICES, k \in DOMAIN PRICES[1],
     d \in 1..AvailMaxStart, st \in DOMAIN AvailStatuses}
\* an order of the pool, to draw each collection once
AvailRank(b) ==
  ((b.created_at * (AvailMaxStart + 1) + b.start_date) * 4 + b.days_count) * 4
    + b.masks_count

InitAvail ==
  /\ \E n \in 0..AvailBookings : \E f \in [1..n -> AvailPool] :
       /\ \A i \in 1..(n - 1) : AvailRank(f[i]) <= AvailRank(f[i + 1])
       /\ bookings = {[f[i] EXCEPT !.id = i, !.created_at = 0] : i \in 1..n}
       /\ nextId = n
  /\ \E m \in DOMAIN PRICES, k \in DOMAIN PRICES[1] :
       /\ user_sessions = (1 :> ("masks_count" :> m @@ "days_count" :> k))
       /\ tasks = SetToBag({Task("scan", 1, m, k, NoBooking)})
  /\ clock = 0
  /\ lastOut = Out(1, "masks", "ask_days")

NextAvail == \E t \in AllTasks : SelectDaysScan(t)

SpecAvail == InitAvail /\ [][NextAvail]_vars

\* One requester who answers each message with one of its buttons and then
\* types an address, with no other activity: one update is handled at a time
\* and a new dialogue starts only after the previous one ended
FlowCap == 1
FlowAddresses == {"addr1", "addr2"}
FlowIdle == {"none", "send_failed", "admin_notified", "admin_notify_failed"}

NextFlow ==
  \/ lastOut.reply \in FlowIdle /\ StartBooking(1)
  \/ lastOut.reply = "ask_masks" /\ \E n \in DOMAIN PRICES : SelectMasks(1, n)
  \/ /\ lastOut.reply = "ask_days"
     /\ \E n \in DOMAIN PRICES[1] : SelectDaysBegin(1, n, 1)
  \/ \E t \in AllTasks : SelectDaysScan(t)
  \/ /\ lastOut.reply = "offer_dates"
     /\ \E d \in Range(lastOut.body) : SelectDate(1, d)
  \/ /\ lastOut.reply = "ask_address"
     /\ \E a \in FlowAddresses : HandleTextBegin(1, a, 1, FlowCap)
  \/ \E t \in AllTasks : TextInsert(t)
  \/ \E t \in AllTasks, ok \in BOOLEAN : TextReply(t, ok)
  \/ \E t \in AllTasks, ok \in BOOLEAN : TextNotify(t, ok)

SpecFlow == Init /\ [][NextFlow]_vars

\* Text events against a completed session: the requester chose a quantity,
\* a duration and one of the dates offered while nothing was booked, and
\* the address text arrives, possibly more than once, with up to TextSlots
\* handle_text executions in flight
TextSlots == 2
TextCap == 2

InitText ==
  /\ bookings = {}
  /\ \E m \in DOMAIN PRICES, k \in DOMAIN PRICES[1], d \in 1..MaxDates :
       user_sessions =
         (1 :> ("masks_count" :> m @@ "days_count" :> k @@ "start_date" :> d))
  /\ tasks = EmptyBag
  /\ clock = 0
  /\ lastOut = Out(1, "date", "ask_address")
  /\ nextId = 0

NextText ==
  \/ HandleTextBegin(1, "addr1", TextSlots, TextCap)
  \/ \E t \in AllTasks : TextInsert(t)
  \/ \E t \in AllTasks, ok \in BOOLEAN : TextReply(t, ok)
  \/ \E t \in AllTasks, ok \in BOOLEAN : TextNotify(t, ok)

SpecText == InitText /\ [][NextText]_vars

\* The scenario of one stored reservation A, both masks from day 10 to day
\* 12, and a requester of 1 mask who asks for 2 days, again and again while
\* the days pass, until the day before A starts
ReservationA == NewBooking(1, 2, 2, 2, 10, PRICES[2][2], "addr1", 0)

InitScenario ==
  /\ bookings = {ReservationA}
  /\ user_sessions = (1 :> ("masks_count" :> 1))
  /\ tasks = EmptyBag
  /\ clock \in 0..(Instant(ReservationA.start_date) - 1)
  /\ lastOut = Out(1, "masks", "ask_days")
  /\ nextId = 1

NextScenario ==
  \/ SelectDaysBegin(1, 2, 1)
  \/ \E t \in AllTasks : SelectDaysScan(t)
  \/ Tick(Instant(ReservationA.start_date) - 1)

SpecScenario == InitScenario /\ [][NextScenario]_vars

\* The same days_ callback delivered again and again during RescanDays days
\* with nothing written in between: no stored booking or one, and a session
\* with a supported quantity and duration
RescanDays == 2

InitRescan ==
  /\ \E S \in {{}} \cup {{[b EXCEPT !.id = 1, !.created_at = 0]} : b \in AvailPool} :
       bookings = S /\ nextId = Cardinality(S)
  /\ \E m \in DOMAIN PRICES, k \in DOMAIN PRICES[1] :
       user_sessions = (1 :> ("masks_count" :> m @@ "days_count" :> k))
  /\ tasks = EmptyBag
  /\ clock = 0
  /\ lastOut = Out(1, "masks", "ask_days")

NextRescan ==
  \/ SelectDaysBegin(1, user_sessions[1]["days_count"], 1)
  \/ \E t \in AllTasks : SelectDaysScan(t)
  \/ Tick(Instant(RescanDays) - 1)

SpecRescan == InitRescan /\ [][NextRescan]_vars

\* The operator's API over a stored collection of up to ApiBookings pending
\* bookings of one mask that start within ApiMaxStart days
ApiBookings == 2
ApiMaxStart == 2
ApiPool ==
  {NewBooking(0, 1, 1, k, d, PRICES[1][k], "addr1", 0) :
     k \in 1..2, d \in 1..ApiMaxStart}
\* the ids a request names: none stored has id 0
ApiIds == 0..ApiBookings

InitApi ==
  /\ \E n \in 0..ApiBookings : \E f \in [1..n -> ApiPool] :
       /\ \A i \in 1..(n - 1) : AvailRank(f[i]) <= AvailRank(f[i + 1])
       /\ bookings = {[f[i] EXCEPT !.id = i] : i \in 1..n}
       /\ nextId = n
  /\ user_sessions = EmptyDict
  /\ tasks = EmptyBag
  /\ clock = 0
  /\ lastOut = Out(0, "startup", "none")

NextApi ==
  \/ GetBookings
  \/ GetActiveBookings
  \/ \E id \in ApiIds, st \in StatusInputs : UpdateBookingStatus(id, st)
  \/ \E id \in ApiIds : DeleteBooking(id)

SpecApi == InitApi /\ [][NextApi]_vars

\* The active list over one booking more than a list holds: ListLimit + 1
\* pending one-day bookings, one starting on each of the coming days, of
\* which the first two may be cancelled and taken up again, until the first
\* has ended
PagePool ==
  {NewBooking(i, 1, 1, 1, i, PRICES[1][1], "addr1", 0) : i \in 1..(ListLimit + 1)}

InitPage ==
  /\ bookings = PagePool
  /\ user_sessions = EmptyDict
  /\ tasks = EmptyBag
  /\ clock = 0
  /\ lastOut = Out(0, "startup", "none")
  /\ nextId = ListLimit + 1

NextPage ==
  \/ GetActiveBookings
  \/ \E id \in 1..2, st \in {"pending", "cancelled"} :
       UpdateBookingStatus(id, st)
  \/ Tick(Instant(2) + 1)

SpecPage == InitPage /\ [][NextPage]_vars

\* One requester's dialogue for one mask and one day while the clock runs:
\* InactivityWindow is the number of ticks of silence after which a session
\* is to be invalid
InactivityWindow == 2

NextTimeout ==
  \/ Intake({1}, {1}, {1}, {1}, {"addr1"}, 1, 1)
  \/ Tick(InactivityWindow + 1)

SpecTimeout == Init /\ [][NextTimeout]_vars

\* One requester's dialogue when both masks are booked three days at a
\* time from tomorrow on, for the whole horizon or for all of it but the
\* last three days, today and tomorrow
BookedCover(n) ==
  {NewBooking(i, 2, TotalMasks, 3, 3 * i - 2, PRICES[TotalMasks][3], "addr1", 0) :
     i \in 1..n}

InitBooked ==
  /\ \E n \in {HorizonDays \div 3 - 1, HorizonDays \div 3} :
       bookings = BookedCover(n) /\ nextId = n
  /\ user_sessions = EmptyDict
  /\ tasks = EmptyBag
  /\ clock = 0
  /\ lastOut = Out(0, "startup", "none")

NextBooked ==
  \/ Intake({1}, {1}, {1, 2}, {1}, {"addr1"}, 1, HorizonDays \div 3 + 1)
  \/ Tick(Instant(1))

SpecBooked == InitBooked /\ [][NextBooked]_vars

\* The operator changes the status of stored bookings, or deletes them,
\* while a requester asks for dates: one or two stored bookings of any
\* supported shape starting within LifeMaxStart days, pending or cancelled,
\* that respect the capacity
LifeMaxStart == 2
LifePool ==
  {[NewBooking(0, 2, m, k, d, PRICES[m][k], "addr1", 0) EXCEPT !.status = st] :
     m \in DOMAIN PRICES, k \in DOMAIN PRICES[1], d \in 1..LifeMaxStart,
     st \in {"pending", "cancelled"}}

InitLife ==
  /\ \E a, b \in LifePool :
       /\ bookings = {[a EXCEPT !.id = 1], [b EXCEPT !.id = 2]}
       /\ \A t \in 1..(LifeMaxStart + 3) :
            SumMasks({x \in bookings :
                        /\ x.status \in {"pending", "confirmed"}
                        /\ x.start_date <= t /\ t < x.end_date}) <= TotalMasks
  /\ \E m \in DOMAIN PRICES, k \in DOMAIN PRICES[1] :
       user_sessions = (1 :> ("masks_count" :> m @@ "days_count" :> k))
  /\ tasks = EmptyBag
  /\ clock = 0
  /\ lastOut = Out(1, "masks", "ask_days")
  /\ nextId = 2

NextLife ==
  \/ \E id \in 1..2, st \in Statuses : UpdateBookingStatus(id, st)
  \/ \E id \in 1..2 : DeleteBooking(id)
  \/ SelectDaysBegin(1, user_sessions[1]["days_count"], 1)
  \/ \E t \in AllTasks : SelectDaysScan(t)

SpecLife == InitLife /\ [][NextLife]_vars

\* ================================================================ properties
ActiveStatuses == {"pending", "confirmed"}

\* day t lies in [start_date, end_date) of b
Covers(b, t) == b.start_date <= t /\ t < b.end_date

\* masks out on day t
Load(db, t) == SumMasks({b \in db : b.status \in ActiveStatuses /\ Covers(b, t)})

\* the days some booking of db covers
DaysOf(db) == UNION {b.start_date..(b.end_date - 1) : b \in db}

CapacityOk(db) == \A t \in DaysOf(db) : Load(db, t) <= TotalMasks

\* half-open windows sharing a day
Overlap(a, b) == a.start_date < b.end_date /\ b.start_date < a.end_date

\* C1: on every day the pending and confirmed bookings covering it hold at
\* most 2 masks in total, in every reachable state.
C1_CapacityInvariant == CapacityOk(bookings)

\* C2: two handle_text executions of different requesters, in flight together
\* with overlapping windows and more masks than the inventory holds, never
\* both get their booking stored: one of them is refused.
C2_ExactlyOneWinner ==
  \A t1, t2 \in AllTasks :
    (/\ t1.user # t2.user
     /\ {t1.pc, t2.pc} \subseteq {"reply", "notify"}
     /\ Overlap(t1.booking, t2.booking)
     /\ t1.booking.masks_count + t2.booking.masks_count > TotalMasks)
    => ~({t1.booking, t2.booking} \subseteq bookings)

\* C3: the commit step of handle_text re-validates the window against the
\* bookings stored at that moment: a window that no longer fits is not
\* inserted.
C3_CommitRevalidates ==
  [][\A t \in AllTasks :
       (/\ TextInsert(t)
        /\ ~DateFits(bookings, t.booking.masks_count,
                     t.booking.start_date, t.booking.end_date))
       => bookings' = bookings]_vars

\* the pending booking a requester with session ses would make from date d
Requested(ses, d) ==
  NewBooking(0, 0, ses["masks_count"], ses["days_count"], d, 0, "", 0)

\* C4: when the stored bookings respect the capacity invariant, every date
\* that get_available_dates offers for the quantity and duration of the
\* session can take a pending booking of that quantity and duration without
\* any day exceeding 2 masks.
C4_OfferedDatesFit ==
  (lastOut.reply = "offer_dates" /\ CapacityOk(bookings)) =>
    \A d \in Range(lastOut.body) :
      CapacityOk(bookings \cup {Requested(user_sessions[lastOut.who], d)})

\* a scan that left out the start day of a stored booking for lack of masks
C4_Witness ==
  /\ lastOut.reply = "offer_dates"
  /\ CapacityOk(bookings)
  /\ Len(lastOut.body) = MaxDates
  /\ \E b \in bookings :
       /\ b.status \in ActiveStatuses
       /\ b.start_date > Today(clock)
       /\ b.start_date \notin Range(lastOut.body)

\* the booking the dialogue of user u must commit for session ses and
\* address a
Expected(id, u, ses, a, now) ==
  [id |-> id, user_id |-> u,
   masks_count |-> ses["masks_count"], days_count |-> ses["days_count"],
   start_date |-> ses["start_date"],
   end_date |-> ses["start_date"] + ses["days_count"],
   price |-> PRICES[ses["masks_count"]][ses["days_count"]],
   delivery_address |-> a, status |-> "pending", created_at |-> now]

\* C5: in the dialogue start_booking, masks_q, days_k, date_d (d offered),
\* text(address) of one requester every step is accepted and stores its
\* value, the text event builds the booking (q, k, d, d + k, PRICES[q][k],
\* address, pending), and exactly that booking is inserted, once, and shows
\* in every list get_bookings returns.
C5_FlowCommitsOneBooking ==
  [][/\ lastOut'.reply \notin {"KeyError", "session_expired", "none", "no_dates"}
     /\ \A n \in DOMAIN PRICES : SelectMasks(1, n) =>
          user_sessions'[1] = ("masks_count" :> n)
     /\ \A n \in DOMAIN PRICES[1] : SelectDaysBegin(1, n, 1) =>
          /\ 1 \in DOMAIN user_sessions
          /\ user_sessions'[1] =
               ("masks_count" :> user_sessions[1]["masks_count"]
                  @@ "days_count" :> n)
     /\ \A d \in DatesAt(1..HorizonDays) : SelectDate(1, d) =>
          /\ DOMAIN user_sessions[1] = {"masks_count", "days_count"}
          /\ user_sessions'[1] = DictSet(user_sessions[1], "start_date", d)
     /\ \A a \in FlowAddresses : HandleTextBegin(1, a, 1, FlowCap) =>
          tasks' = Suspend(Task("insert", 1, 0, 0,
                     Expected(nextId + 1, 1, user_sessions[1], a, clock)))
     /\ \A t \in AllTasks : TextInsert(t) =>
          /\ t.booking \notin bookings
          /\ bookings' = bookings \cup {t.booking}
          /\ \A l \in get_bookings(bookings') : t.booking \in Range(l)
     /\ bookings' # bookings => \E t \in AllTasks : TextInsert(t)
     /\ nextId' = Cardinality(bookings')
                    + Cardinality({t \in BagToSet(tasks') : t.pc = "insert"})
    ]_vars

\* a finished dialogue for 2 masks and 3 days
C5_Witness ==
  /\ lastOut = Out(1, "text", "admin_notified")
  /\ 1 \notin DOMAIN user_sessions
  /\ \E b \in bookings :
       /\ bookings = {b}
       /\ b.masks_count = 2 /\ b.days_count = 3 /\ b.price = 360
       /\ b.end_date = b.start_date + 3
       /\ b.delivery_address = "addr2" /\ b.status = "pending"

\* the session of u holds quantity, duration and start date
HasAllFields(u) ==
  /\ u \in DOMAIN user_sessions
  /\ {"masks_count", "days_count", "start_date"} \subseteq DOMAIN user_sessions[u]

DialogueUnchanged == UNCHANGED <<bookings, user_sessions, tasks, nextId>>

\* C6: a text event against a session that lacks quantity, duration or start
\* date changes nothing; a booking is built only by a text event whose
\* session holds all three, from their values; and the stored bookings
\* change only by the insert of such a booking.
C6_InsertNeedsAllFields ==
  [][/\ \A u \in Users :
          (HandleTextBegin(u, "addr1", DialogueSlots, DialogueCap)
             /\ ~HasAllFields(u)) => DialogueUnchanged
     /\ \A t \in BagToSet(tasks') :
          (t.pc = "insert" /\ t \notin AllTasks) =>
            /\ HasAllFields(t.user)
            /\ HandleTextBegin(t.user, "addr1", DialogueSlots, DialogueCap)
            /\ t.booking = Expected(nextId', t.user, user_sessions[t.user],
                                    "addr1", clock)
     /\ bookings' # bookings =>
          \E t \in AllTasks : t.booking.id > 0 /\ TextInsert(t)
    ]_vars

\* a text event that met a start date without a duration and inserted nothing
C6_Witness ==
  /\ lastOut = Out(1, "text", "KeyError")
  /\ 1 \in DOMAIN user_sessions
  /\ "start_date" \in DOMAIN user_sessions[1]
  /\ "days_count" \notin DOMAIN user_sessions[1]
  /\ bookings = {} /\ tasks = EmptyBag /\ nextId = 0

\* C7: a start_booking callback leaves its sender without any stored
\* quantity, duration or start date.
C7_RestartResets ==
  [][\A u \in Users : StartBooking(u) =>
       \/ u \notin DOMAIN user_sessions'
       \/ DOMAIN user_sessions'[u] = {}]_vars

\* C8: a date_ callback for a session with a quantity but no duration is
\* answered with the session-expired message and stores nothing.
C8_DateBeforeDurationExpires ==
  [][\A u \in Users, d \in DatesAt(DateOffsets) :
       (/\ SelectDate(u, d)
        /\ u \in DOMAIN user_sessions
        /\ "days_count" \notin DOMAIN user_sessions[u])
       => /\ lastOut'.reply = "session_expired"
          /\ user_sessions' = user_sessions]_vars

C10_OnlyOfferedDates ==
  [][\A u \in Users, d \in DatesAt(DateOffsets) :
       (/\ SelectDate(u, d)
        /\ lastOut.who = u /\ lastOut.reply = "offer_dates"
        /\ d \notin Range(lastOut.body))
       => user_sessions' = user_sessions]_vars

\* C11: of two handle_text executions of one requester that are in flight
\* together for the same completed session (the address text delivered
\* twice), at most one gets its booking stored.
C11_DuplicateTextInsertsOnce ==
  \A t1, t2 \in AllTasks :
    (/\ t1.user = t2.user
     /\ t1.booking.id # t2.booking.id
     /\ {t1.pc, t2.pc} \subseteq {"reply", "notify"})
    => ~({t1.booking, t2.booking} \subseteq bookings)

\* C12: once a booking of a requester is stored and the handle_text
\* execution that stored it is over, however it ended, the requester has no
\* session left, so that a later text finds none and inserts nothing.
C12_CommitDestroysSession ==
  \A u \in Users :
    (/\ \E b \in bookings : b.user_id = u
     /\ \A t \in AllTasks : t.user # u)
    => u \notin DOMAIN user_sessions

\* C20: when the notification of the operator fails, the booking of that
\* handle_text execution stays stored as it was, with status pending, the
\* execution ends and the session of its requester is destroyed.
C20_NotifyFailureKeepsBooking ==
  [][\A t \in AllTasks : TextNotify(t, FALSE) =>
       /\ bookings' = bookings
       /\ t.booking \in bookings' /\ t.booking.status = "pending"
       /\ tasks' = Resume(t)
       /\ t.user \notin DOMAIN user_sessions']_vars

\* a dialogue that ended with a failed notification of the operator
C20_Witness ==
  /\ lastOut.reply = "admin_notify_failed"
  /\ tasks = EmptyBag
  /\ 1 \notin DOMAIN user_sessions
  /\ \E b \in bookings : bookings = {b} /\ b.status = "pending"

\* C13: for a candidate date d of the horizon and the duration k of the scan,
\* a pending or confirmed booking that ends on d, or that starts on d + k,
\* adds nothing to the booked sum of d: the sum is the same without it.
C13_AdjacentNotCounted ==
  LET k == user_sessions[1]["days_count"]
      today == Today(clock)
  IN \A b \in bookings : \A d \in {b.end_date, b.start_date - k} :
       (/\ b.status \in ActiveStatuses
        /\ d \in (today + 1)..(today + HorizonDays))
       => BookedMasks(bookings, d, d + k)
            = BookedMasks(bookings \ {b}, d, d + k)

\* a scan that offered a date between two bookings of both masks, one that
\* ends on it and one that starts when its window ends
C13_Witness ==
  /\ lastOut.reply = "offer_dates"
  /\ \E d \in Range(lastOut.body) : \E b1, b2 \in bookings :
       /\ b1.status \in ActiveStatuses /\ b1.masks_count = TotalMasks
       /\ b2.status \in ActiveStatuses /\ b2.masks_count = TotalMasks
       /\ b1.end_date = d
       /\ b2.start_date = d + user_sessions[1]["days_count"]

\* C14 as stated: with A stored, the scan for 1 mask and 2 days offers
\* neither day 10 nor day 11 and offers day 12 and every later day of its
\* horizon.
C14_ScenarioFromDay12 ==
  lastOut.reply = "offer_dates" =>
    /\ 10 \notin Range(lastOut.body) /\ 11 \notin Range(lastOut.body)
    /\ \A d \in 12..(Today(lastOut.at) + HorizonDays) : d \in Range(lastOut.body)

\* C14 amended: with A stored, the scan for 1 mask and 2 days offers neither
\* day 10 nor day 11, and what it offers is the first 7, in ascending order,
\* of the days today+1 .. today+30 other than 9, 10 and 11; day 12 and the
\* days after it are offered as far as these 7 reach.
C14_ScenarioFirstSeven ==
  lastOut.reply = "offer_dates" =>
    LET today == Today(lastOut.at)
        free == ((today + 1)..(today + HorizonDays)) \ (9..11)
        body == lastOut.body
    IN /\ 10 \notin Range(body) /\ 11 \notin Range(body)
       /\ Len(body) = MaxDates
       /\ \A i \in 1..(Len(body) - 1) : body[i] < body[i + 1]
       /\ Range(body) \subseteq free
       /\ \A d \in free : d < body[Len(body)] => d \in Range(body)
       /\ \A d \in free :
            (d >= 12 /\ Cardinality({x \in free : x < d}) < MaxDates)
              => d \in Range(body)

\* the scan of day 3: five days before A, then day 12 and day 13
C14_Witness ==
  /\ lastOut.reply = "offer_dates"
  /\ Today(lastOut.at) = 3
  /\ lastOut.body = <<4, 5, 6, 7, 8, 12, 13>>

\* two instants of the same calendar day
SameDay(a, b) == a \div TicksPerDay = b \div TicksPerDay

\* C15: a scan that returns on the day the previous scan of the same
\* quantity and duration returned, with nothing written in between, gives
\* the same answer: the same sequence of dates, or again none.
C15_RescanSameDay ==
  [][\A t \in AllTasks :
       (/\ SelectDaysScan(t)
        /\ lastOut.event = "days" /\ lastOut.who = t.user
        /\ SameDay(lastOut.at, clock))
       => /\ lastOut'.reply = lastOut.reply
          /\ lastOut'.body = lastOut.body]_vars

\* a second scan in flight later on the day of the first, whose answer
\* left out a day for lack of masks
C15_Witness ==
  /\ lastOut.reply = "offer_dates"
  /\ lastOut.at < clock /\ SameDay(lastOut.at, clock)
  /\ Suspended("scan") # {}
  /\ \E b \in bookings : b.start_date \notin Range(lastOut.body)

\* the ids of the stored bookings
StoredIds == {b.id : b \in bookings}

\* C16: update_booking_status and delete_booking with an id that no stored
\* booking has answer 404 and leave the stored bookings as they were.
C16_UnknownIdNotFound ==
  [][\A id \in ApiIds : id \notin StoredIds =>
       /\ \A st \in StatusInputs : UpdateBookingStatus(id, st) =>
            /\ lastOut' = Out(0, "update_booking_status", "404")
            /\ bookings' = bookings
       /\ DeleteBooking(id) =>
            /\ lastOut' = Out(0, "delete_booking", "404")
            /\ bookings' = bookings]_vars

\* a 404 given while a booking with another id was stored
C16_Witness ==
  /\ lastOut.reply = "404"
  /\ lastOut.event = "update_booking_status"
  /\ bookings # {}

\* C18: the status of every stored booking is one of pending, confirmed,
\* completed, cancelled, in every reachable state.
C18_StatusInSet == \A b \in bookings : b.status \in Statuses

\* C17: the list get_active_bookings returns holds exactly the stored
\* bookings with status pending or confirmed and end_date >= now, each once,
\* in ascending order of start_date.
C17_ActiveListExact ==
  [][GetActiveBookings =>
       LET body == lastOut'.body
       IN /\ Range(body) =
               {b \in bookings : /\ b.status \in ActiveStatuses
                                 /\ Instant(b.end_date) >= clock}
          /\ \A i, j \in DOMAIN body :
               i < j => body[i] # body[j] /\ body[i].start_date <= body[j].start_date
    ]_vars

\* requester u has a session, no handler of u is in flight and the last
\* reply, which went to u, is at least InactivityWindow ticks old
SessionIdle(u) ==
  /\ u \in DOMAIN user_sessions
  /\ \A t \in AllTasks : t.user # u
  /\ lastOut.who = u
  /\ clock - lastOut.at >= InactivityWindow

\* C19: the days_, date_ or text event that follows InactivityWindow ticks
\* of silence of its requester is answered with the session-expired message
\* and neither starts a scan nor builds or inserts a booking.
C19_IdleSessionExpires ==
  [][\A u \in Users : SessionIdle(u) =>
       ((\/ SelectDaysBegin(u, 1, 1)
         \/ \E d \in DatesAt({1}) : SelectDate(u, d)
         \/ HandleTextBegin(u, "addr1", 1, 1))
        => /\ lastOut'.reply = "session_expired"
           /\ UNCHANGED <<bookings, tasks, nextId>>)]_vars

\* the dates of today+1 .. today+30 on which masks_needed more masks fit,
\* by the half-open overlap of the window [d, d + days_needed)
FreeDates(db, masks_needed, days_needed, today) ==
  {d \in (today + 1)..(today + HorizonDays) :
     SumMasks({b \in db : /\ b.status \in ActiveStatuses
                          /\ b.start_date < d + days_needed
                          /\ b.end_date > d}) + masks_needed <= TotalMasks}

\* s lists, in ascending order, the n least elements of S (all of S when it
\* has fewer)
IsFirstOf(s, S, n) ==
  /\ Range(s) \subseteq S
  /\ \A i \in 1..(Len(s) - 1) : s[i] < s[i + 1]
  /\ Len(s) = IF Cardinality(S) < n THEN Cardinality(S) ELSE n
  /\ \A d \in S : d \notin Range(s) => \A i \in DOMAIN s : s[i] < d

\* C21: what a scan for a supported quantity and duration returns is exactly
\* the first 7, in ascending order, of the dates of today+1 .. today+30 whose
\* window, by half-open overlap with the pending and confirmed bookings,
\* leaves room for the quantity.
C21_ScanIsFirstSevenFree ==
  lastOut.event = "days" =>
    IsFirstOf(lastOut.body,
              FreeDates(bookings, user_sessions[lastOut.who]["masks_count"],
                        user_sessions[lastOut.who]["days_count"],
                        Today(lastOut.at)),
              MaxDates)

\* a scan that skipped tomorrow and a later day between offered ones
C21_Witness ==
  /\ lastOut.reply = "offer_dates"
  /\ Len(lastOut.body) = MaxDates
  /\ lastOut.body[1] > Today(lastOut.at) + 1
  /\ \E i \in 1..(MaxDates - 1) : lastOut.body[i + 1] > lastOut.body[i] + 1

C23_NoDatesNoTransition ==
  [][\A u \in Users :
       (/\ lastOut.who = u /\ lastOut.reply = "no_dates"
        /\ u \in DOMAIN user_sessions)
       => /\ "days_count" \notin DOMAIN user_sessions[u]
          /\ \A d \in DatesAt({1}) : SelectDate(u, d) =>
               /\ lastOut'.reply = "session_expired"
               /\ user_sessions' = user_sessions
          /\ HandleTextBegin(u, "addr1", 1, HorizonDays \div 3 + 1) =>
               DialogueUnchanged]_vars

\* C24: in every reachable state a stored quantity is 1 or 2 and a stored
\* duration is 1, 2 or 3: a callback with any other value stores nothing.
C24_SessionValuesSupported ==
  \A u \in DOMAIN user_sessions :
    /\ "masks_count" \in DOMAIN user_sessions[u] =>
         user_sessions[u]["masks_count"] \in DOMAIN PRICES
    /\ "days_count" \in DOMAIN user_sessions[u] =>
         user_sessions[u]["days_count"] \in DOMAIN PRICES[1]

\* C25: for every stored booking, whatever its status, and every one of the
\* four statuses, update_booking_status can be called, answers "updated" and
\* leaves the booking with exactly that status.
C25_AnyTransitionAccepted ==
  [][\A id \in StoredIds, st \in Statuses :
       /\ ENABLED UpdateBookingStatus(id, st)
       /\ UpdateBookingStatus(id, st) =>
            /\ lastOut' = Out(0, "update_booking_status", "updated")
            /\ \A b \in bookings' : b.id = id => b.status = st
            /\ id \in {b.id : b \in bookings'}]_vars

\* an accepted update that left one booking cancelled and the other completed
C25_Witness ==
  /\ lastOut = Out(0, "update_booking_status", "updated")
  /\ \E a, b \in bookings : a.status = "cancelled" /\ b.status = "completed"

\* bookings a and b agree on everything but the status
SameButStatus(a, b) == [a EXCEPT !.status = ""] = [b EXCEPT !.status = ""]

\* C27: no operation of the API changes or adds any field of a stored
\* booking other than the status, and update_booking_status keeps every
\* booking, changes the status of none but the one with the given id, and
\* changes nothing else of that one.
C27_UpdateFrame ==
  [][/\ \A b \in bookings' : \E a \in bookings : SameButStatus(a, b)
     /\ \A id \in ApiIds, st \in StatusInputs : UpdateBookingStatus(id, st) =>
          /\ Cardinality(bookings') = Cardinality(bookings)
          /\ \A a \in bookings : \E b \in bookings' :
               SameButStatus(a, b) /\ (a.id # id => b = a)]_vars

\* an accepted update of one of two bookings: the other is still pending
C27_Witness ==
  /\ lastOut = Out(0, "update_booking_status", "updated")
  /\ \E a, b \in bookings :
       a.id # b.id /\ a.status = "pending" /\ b.status = "confirmed"

\* C26: an update_booking_status on bookings that respect the capacity
\* leaves bookings that respect it: on no day do the pending and confirmed
\* bookings hold more than 2 masks afterwards.
C26_UpdateKeepsCapacity ==
  [][\A id \in 1..2, st \in Statuses :
       (UpdateBookingStatus(id, st) /\ CapacityOk(bookings))
       => CapacityOk(bookings')]_vars

\* what get_available_dates returns over db now for the quantity and the
\* duration of the requester's session
ScanOver(db) ==
  get_available_dates(db, user_sessions[1]["masks_count"],
                      user_sessions[1]["days_count"], clock)

\* C28: once update_booking_status has set a booking to cancelled or
\* completed, and once delete_booking has deleted it, get_available_dates
\* returns what it returns over the other stored bookings alone.
C28_OnlyActiveConsume ==
  [][\A id \in 1..2 :
       (\/ \E st \in {"cancelled", "completed"} : UpdateBookingStatus(id, st)
        \/ DeleteBooking(id))
       => ScanOver(bookings') = ScanOver({b \in bookings : b.id # id})]_vars

\* a scan that offered the first day of a completed booking of both masks
C28_Witness ==
  /\ lastOut.reply = "offer_dates"
  /\ \E b \in bookings :
       /\ b.status = "completed" /\ b.masks_count = TotalMasks
       /\ b.start_date \in Range(lastOut.body)

\* the step is the handling, or a part of the handling, of an update of
\* requester u
EventOf(u) ==
  \/ StartBooking(u)
  \/ \E n \in {1, 2} : SelectMasks(u, n)
  \/ SelectDaysBegin(u, 1, IntakeSlots)
  \/ \E d \in DatesAt({1}) : SelectDate(u, d)
  \/ HandleTextBegin(u, "addr1", IntakeSlots, IntakeCap)
  \/ \E t \in AllTasks :
       /\ t.user = u
       /\ \/ SelectDaysScan(t)
          \/ TextInsert(t)
          \/ \E ok \in BOOLEAN : TextReply(t, ok) \/ TextNotify(t, ok)

\* the step creates, changes or removes the session of requester v
SessionTouched(v) ==
  \/ (v \in DOMAIN user_sessions') # (v \in DOMAIN user_sessions)
  \/ /\ v \in DOMAIN user_sessions /\ v \in DOMAIN user_sessions'
     /\ user_sessions'[v] # user_sessions[v]

\* C29: a step that creates, changes or removes the session of a requester
\* is no step of the handling of an update of another requester.
C29_SessionsIsolated ==
  [][\A v \in Users : SessionTouched(v) =>
       \A u \in Users \ {v} : ~EventOf(u)]_vars

\* the session of requester 1 was destroyed at the end of a commit while
\* requester 2 keeps a complete one
C29_Witness ==
  /\ lastOut.who = 1 /\ lastOut.reply = "admin_notified"
  /\ 1 \notin DOMAIN user_sessions
  /\ HasAllFields(2)

\* C30: every booking that handle_text has built or inserted, whatever
\* callbacks came before, has a quantity of 1 or 2, a duration of 1, 2 or 3,
\* the price of the table for them, end_date = start_date + days_count and
\* status pending.
C30_InsertedBookingWellFormed ==
  \A b \in bookings \cup {t.booking : t \in Suspended("insert")} :
    /\ b.masks_count \in {1, 2}
    /\ b.days_count \in {1, 2, 3}
    /\ b.price = PRICES[b.masks_count][b.days_count]
    /\ b.end_date = b.start_date + b.days_count
    /\ b.status = "pending"

\* a booking stored while its requester's session holds the unsupported
\* quantity of a masks_3 callback that came during the commit
C30_Witness ==
  /\ bookings # {}
  /\ Suspended("notify") # {}
  /\ 1 \in DOMAIN user_sessions
  /\ user_sessions[1] = ("masks_count" :> 3)

====
